---- MODULE Spec2Model ----
(***************************************************************************)
(* AnovaConnection (src/src/anova_wifi/connection.py): one asyncio stream  *)
(* shared by send_command callers, the background receive loop (_listen /  *)
(* receive) and close().  Every action below is one run of a coroutine     *)
(* between two suspension points of the single-threaded event loop.        *)
(***************************************************************************)
EXTENDS Integers, Sequences, FiniteSets, TLC

\* ------------------------------------------------------------------ bounds
NumCalls == 2        \* send_command invocations made on the connection
NumClosers == 2      \* close() invocations made on the connection
MaxMsgs == 3         \* non-empty reads the stream delivers

Calls == 1..NumCalls
Closers == 1..NumClosers
Callbacks == {"cb1", "cb2"}

\* ---------------------------------------------------------- frame codec
\* Encoder (anova_wifi/encoding.py) is imported at line 5 and used at lines
\* 21 and 59.  One read()'s bytes are a sequence of byte codes; the codec
\* maps a code to the word it stands for, and code 0 is a malformed byte,
\* on which decode raises.
Words == <<"event", "temp", "??", "ok", "42", "Invalid", "Command",
           "read", "set">>

Decodable(data) == \A i \in 1..Len(data) : data[i] \in 1..Len(Words)

Decode(data) == [i \in 1..Len(data) |-> Words[data[i]]]

CodeOf(w) == CHOOSE c \in 1..Len(Words) : Words[c] = w

Encode(msg) == [i \in 1..Len(msg) |-> CodeOf(msg[i])]

LowerWord(w) ==
    CASE w = "Invalid" -> "invalid"
      [] w = "Command" -> "command"
      [] OTHER -> w

Lower(msg) == [i \in 1..Len(msg) |-> LowerWord(msg[i])]

Contains(sub, msg) ==
    \E i \in 0..(Len(msg) - Len(sub)) : SubSeq(msg, i + 1, i + Len(sub)) = sub

\* Faulty variant: the test of line 62 without .lower().
IsInvalidCommandCaseSensitive(msg) == Contains(<<"invalid", "command">>, msg)

\* Line 62: `"invalid command" in msg.lower()`.
IsInvalidCommand(msg) == Contains(<<"invalid", "command">>, Lower(msg))

\* ----------------------------------------------------- event classifier
\* AnovaEvent (anova_wifi/event.py) is imported at line 6 and used at lines
\* 66 and 68: an event carries the event tag as its first word, and
\* parse_event raises on a field it cannot parse.
is_event(msg) == Len(msg) > 0 /\ msg[1] = "event"

ParsesAsEvent(msg) == \A i \in 1..Len(msg) : msg[i] # "??"

\* The byte strings the peer sends: an event, an event whose fields do not
\* parse, two replies, a rejection notice in mixed case, a rejection notice
\* that is event-shaped, and a malformed frame.
Frames ==
    { <<1, 2>>, <<1, 3>>, <<4>>, <<5>>, <<6, 7>>, <<1, 6, 7>>, <<0>> }

Eof == << >>

\* ------------------------------------------------------------------ state
VARIABLES
    response_future,   \* the waiter slot: 0 (None) or the call whose Future it holds
    fut,               \* the Future each send_command created: state and result
    event_callback,    \* "None" or the registered callback
    listen_task,       \* "None", or the state of the task start_listening created
    must_cancel,       \* cancel() was requested on the task and not yet delivered
    task_end,          \* how the task ended
    writer_closed,     \* writer.close() was called
    pc,                \* where each send_command is
    awaiting,          \* the Future a send_command awaits after its timeout
    result,            \* what each send_command returned or raised
    wire,              \* the bytes handed to writer.write so far
    cpc,               \* where each close() is
    close_raised,      \* the exception a close() raised, "none" if none
    close_saw,         \* what each close() found in self.listen_task at line 80
    n_received,        \* number of non-empty reads so far
    last,              \* the latest non-empty read and what receive() did with it
    cb_count,          \* number of event callback invocations so far
    cb_last,           \* the latest invocation: callback, event text, read number
    tasks_created      \* number of tasks start_listening has created

vars == << response_future, fut, event_callback, listen_task, must_cancel,
           task_end, writer_closed, pc, awaiting, result, wire, cpc, close_raised,
           close_saw,
           n_received, last, cb_count, cb_last, tasks_created >>

callVars == << pc, awaiting, result, wire >>
closeVars == << cpc, close_raised, close_saw >>
loopVars == << listen_task, must_cancel, task_end, tasks_created >>
logVars == << n_received, last, cb_count, cb_last >>

NoFuture == [state |-> "none", value |-> << >>]
NoRead == [data |-> Eof, route |-> "none"]
NoInvocation == [cb |-> "None", msg |-> << >>, at |-> 0]
NoResult == [kind |-> "none", value |-> << >>]

Init ==
    /\ response_future = 0
    /\ fut = [s \in Calls |-> NoFuture]
    /\ event_callback = "None"
    /\ listen_task = "None"
    /\ must_cancel = FALSE
    /\ task_end = "none"
    /\ writer_closed = FALSE
    /\ pc = [s \in Calls |-> "idle"]
    /\ awaiting = [s \in Calls |-> 0]
    /\ result = [s \in Calls |-> NoResult]
    /\ wire = << >>
    /\ cpc = [c \in Closers |-> "idle"]
    /\ close_raised = [c \in Closers |-> "none"]
    /\ close_saw = [c \in Closers |-> "none"]
    /\ n_received = 0
    /\ last = NoRead
    /\ cb_count = 0
    /\ cb_last = NoInvocation
    /\ tasks_created = 0

TaskAlive == listen_task \in {"created", "reading", "in_callback"}

\* ----------------------------------------------------------- send_command
\* The frame terminator written at line 23, b'\x16'.
Terminator == 22

\* The command the s-th call is made with.
Cmd(s) == IF s % 2 = 1 THEN <<"read", "temp">> ELSE <<"set", "temp", "42">>

\* Faulty variant: the payload without the write of line 23.
FrameNoTerminator(message) == Encode(message)

\* Lines 21-23: the bytes one send_command hands to the writer, in two
\* consecutive writes with no await between them.
Frame(message) == Encode(message) \o << Terminator >>

\* Lines 21-24: encode, write payload and terminator, then await drain().
\* Calls are numbered in the order in which they are made.
send_command_write(s) ==
    /\ pc[s] = "idle"
    /\ \A t \in Calls : t < s => pc[t] # "idle"
    /\ pc' = [pc EXCEPT ![s] = "draining"]
    /\ wire' = wire \o Frame(Cmd(s))
    /\ UNCHANGED << response_future, fut, event_callback, writer_closed,
                    awaiting, result, closeVars, loopVars, logVars >>

\* Faulty variant: a registration that picks up a reply which was read
\* while no waiter was registered.
send_command_register_buffered(s) ==
    /\ pc[s] = "draining"
    /\ IF writer_closed
       THEN /\ pc' = [pc EXCEPT ![s] = "done"]
            /\ result' = [result EXCEPT ![s] =
                             [kind |-> "ConnectionResetError", value |-> << >>]]
            /\ UNCHANGED << response_future, fut >>
       ELSE /\ pc' = [pc EXCEPT ![s] = "waiting"]
            /\ response_future' = s
            /\ fut' = [fut EXCEPT ![s] =
                          IF last.route = "unexpected"
                          THEN [state |-> "resolved", value |-> Decode(last.data)]
                          ELSE [state |-> "pending", value |-> << >>]]
            /\ UNCHANGED result
    /\ UNCHANGED << event_callback, writer_closed, wire, awaiting, closeVars,
                    loopVars, logVars >>

\* Lines 24-30: drain() returns (or raises on a closed transport), the
\* Future is created and stored in the slot, and wait_for suspends on it.
send_command_register(s) ==
    /\ pc[s] = "draining"
    /\ IF writer_closed
       THEN /\ pc' = [pc EXCEPT ![s] = "done"]
            /\ result' = [result EXCEPT ![s] =
                             [kind |-> "ConnectionResetError", value |-> << >>]]
            /\ UNCHANGED << response_future, fut >>
       ELSE /\ pc' = [pc EXCEPT ![s] = "waiting"]
            /\ response_future' = s
            /\ fut' = [fut EXCEPT ![s] = [state |-> "pending", value |-> << >>]]
            /\ UNCHANGED result
    /\ UNCHANGED << event_callback, writer_closed, wire, awaiting, closeVars,
                    loopVars, logVars >>

\* Faulty variant: the finally block clears the slot only when it still
\* holds this call's own Future.
ClearsSlotIfOwn(s, slot) == IF slot = s THEN 0 ELSE slot

\* Line 36: `self.response_future = None`, whatever the slot holds.
ClearsSlot(s, slot) == 0

\* Lines 30, 35-36: the Future was resolved; wait_for returns its result and
\* the finally block clears the slot.
send_command_return(s) ==
    /\ pc[s] = "waiting"
    /\ fut[s].state = "resolved"
    /\ pc' = [pc EXCEPT ![s] = "done"]
    /\ result' = [result EXCEPT ![s] = [kind |-> "reply", value |-> fut[s].value]]
    /\ response_future' = ClearsSlot(s, response_future)
    /\ UNCHANGED << fut, event_callback, writer_closed, wire, awaiting, closeVars,
                    loopVars, logVars >>

\* Line 30: the 10 s of wait_for elapse with the Future still pending;
\* wait_for cancels the Future it was given and raises TimeoutError into
\* the coroutine, which resumes at its next turn.
send_command_timeout(s) ==
    /\ pc[s] = "waiting"
    /\ fut[s].state = "pending"
    /\ fut' = [fut EXCEPT ![s].state = "cancelled"]
    /\ pc' = [pc EXCEPT ![s] = "timedout"]
    /\ UNCHANGED << response_future, event_callback, writer_closed, wire, awaiting,
                    result, closeVars, loopVars, logVars >>

\* What `await x` does at line 34 for the value x read from the slot.
AwaitOutcome(slot, futs) ==
    IF slot = 0 THEN [kind |-> "TypeError", value |-> << >>]
    ELSE IF futs[slot].state = "cancelled"
         THEN [kind |-> "CancelledError", value |-> << >>]
    ELSE IF futs[slot].state = "resolved"
         THEN [kind |-> "reply", value |-> futs[slot].value]
    ELSE [kind |-> "suspend", value |-> << >>]

\* Lines 31-36: the except block logs, re-reads self.response_future and
\* awaits it; the finally block clears the slot when the await raises or
\* returns.
send_command_after_timeout(s) ==
    /\ pc[s] = "timedout"
    /\ LET o == AwaitOutcome(response_future, fut) IN
       IF o.kind = "suspend"
       THEN /\ pc' = [pc EXCEPT ![s] = "waiting_again"]
            /\ awaiting' = [awaiting EXCEPT ![s] = response_future]
            /\ UNCHANGED << response_future, result >>
       ELSE /\ pc' = [pc EXCEPT ![s] = "done"]
            /\ result' = [result EXCEPT ![s] = o]
            /\ response_future' = ClearsSlot(s, response_future)
            /\ UNCHANGED awaiting
    /\ UNCHANGED << fut, event_callback, writer_closed, wire, closeVars, loopVars,
                    logVars >>

\* Lines 34-36: the Future awaited after the timeout is done.
send_command_return_late(s) ==
    /\ pc[s] = "waiting_again"
    /\ fut[awaiting[s]].state \in {"resolved", "cancelled"}
    /\ pc' = [pc EXCEPT ![s] = "done"]
    /\ result' = [result EXCEPT ![s] = AwaitOutcome(awaiting[s], fut)]
    /\ awaiting' = [awaiting EXCEPT ![s] = 0]
    /\ response_future' = ClearsSlot(s, response_future)
    /\ UNCHANGED << fut, event_callback, writer_closed, wire, closeVars, loopVars,
                    logVars >>

\* The caller cancels the task running send_command while it is suspended
\* at line 30 or line 34.  Cancelling a task cancels the Future it awaits:
\* at line 34 that is the Future read from the slot; at line 30, depending
\* on the Python version, wait_for cancels its Future at once or only when
\* the task resumes.
send_command_cancel(s) ==
    /\ pc[s] \in {"waiting", "waiting_again"}
    /\ pc' = [pc EXCEPT ![s] = "cancelling"]
    /\ LET f == IF pc[s] = "waiting" THEN s ELSE awaiting[s] IN
       \/ /\ fut[f].state = "pending"
          /\ fut' = [fut EXCEPT ![f].state = "cancelled"]
       \/ /\ pc[s] = "waiting" \/ fut[f].state # "pending"
          /\ UNCHANGED fut
    /\ UNCHANGED << response_future, event_callback, writer_closed, wire, awaiting,
                    result, closeVars, loopVars, logVars >>

\* What the cancelled coroutine ends with when it resumes: CancelledError,
\* or, at line 30 with a Future resolved in the meantime, the reply (the
\* wait_for of Python 3.11 returns the result of a Future that is done).
CancelOutcomes(s) ==
    {[kind |-> "CancelledError", value |-> << >>]}
    \cup (IF awaiting[s] = 0 /\ fut[s].state = "resolved"
          THEN {[kind |-> "reply", value |-> fut[s].value]}
          ELSE {})

\* Lines 30/34 and 35-36: the cancelled coroutine resumes, a Future of line
\* 30 that is still pending is cancelled, and the finally block clears the
\* slot.
send_command_cancelled(s) ==
    /\ pc[s] = "cancelling"
    /\ pc' = [pc EXCEPT ![s] = "done"]
    /\ \E o \in CancelOutcomes(s) : result' = [result EXCEPT ![s] = o]
    /\ fut' = IF awaiting[s] = 0 /\ fut[s].state = "pending"
              THEN [fut EXCEPT ![s].state = "cancelled"]
              ELSE fut
    /\ awaiting' = [awaiting EXCEPT ![s] = 0]
    /\ response_future' = ClearsSlot(s, response_future)
    /\ UNCHANGED << event_callback, writer_closed, wire, closeVars, loopVars,
                    logVars >>

\* Lines 30, 35-36: the Future a call waits on at line 30 was cancelled by
\* the cancellation of another call that awaited it at line 34; wait_for
\* raises CancelledError and the finally block clears the slot.
send_command_waiter_cancelled(s) ==
    /\ pc[s] = "waiting"
    /\ fut[s].state = "cancelled"
    /\ pc' = [pc EXCEPT ![s] = "done"]
    /\ result' = [result EXCEPT ![s] = [kind |-> "CancelledError", value |-> << >>]]
    /\ response_future' = ClearsSlot(s, response_future)
    /\ UNCHANGED << fut, event_callback, writer_closed, wire, awaiting, closeVars,
                    loopVars, logVars >>

\* -------------------------------------------------------- start_listening
\* Faulty variant: start_listening without the test of line 39.
CreatesTaskAlways(task) == TRUE

\* Faulty variant: start_listening that starts a new loop once the old one
\* has ended.
CreatesTaskWhenDone(task) == task \in {"None", "done"}

\* Line 39: `if not self.listen_task`.
CreatesTask(task) == task = "None"

\* Lines 38-40.  The task is created scheduled, not yet running.
start_listening ==
    IF CreatesTask(listen_task)
    THEN /\ listen_task' = "created"
         /\ tasks_created' = tasks_created + 1
         /\ must_cancel' = FALSE
         /\ task_end' = "none"
         /\ UNCHANGED << response_future, fut, event_callback, writer_closed,
                         callVars, closeVars, logVars >>
    ELSE UNCHANGED vars

\* Faulty variant: a replacement that hands the most recently routed event to
\* the new callback.
set_event_callback_replay(cb) ==
    /\ event_callback' = cb
    /\ IF cb # event_callback /\ last.route \in {"event", "event_ignored"}
       THEN /\ cb_count' = cb_count + 1
            /\ cb_last' = [cb |-> cb, msg |-> Decode(last.data),
                           at |-> n_received]
       ELSE UNCHANGED << cb_count, cb_last >>
    /\ UNCHANGED << response_future, fut, writer_closed, callVars, closeVars,
                    loopVars, n_received, last >>

\* Lines 76-77.
set_event_callback(cb) ==
    /\ event_callback' = cb
    /\ UNCHANGED << response_future, fut, writer_closed, callVars, closeVars,
                    loopVars, logVars >>

\* ------------------------------------------------------- _listen / receive
\* The task's first turn.  A cancel() requested before it throws
\* CancelledError into the coroutine before it has entered the try block of
\* line 43, so the task ends cancelled; otherwise it runs to the read of
\* line 54.
listen_first_turn ==
    /\ listen_task = "created"
    /\ IF must_cancel
       THEN /\ listen_task' = "done"
            /\ task_end' = "cancelled_unstarted"
            /\ must_cancel' = FALSE
       ELSE /\ listen_task' = "reading"
            /\ UNCHANGED << task_end, must_cancel >>
    /\ UNCHANGED << response_future, fut, event_callback, writer_closed,
                    callVars, closeVars, logVars, tasks_created >>

\* Faulty variant: the event test of line 66 placed before the rejection
\* test of line 62.
EventBeforeInvalidRoute(msg, cb, slot, futs) ==
    IF is_event(msg)
    THEN IF cb = "None" THEN "event_ignored"
         ELSE IF ParsesAsEvent(msg) THEN "event" ELSE "parse_error"
    ELSE IF IsInvalidCommand(msg) THEN "dropped"
    ELSE IF slot # 0 /\ futs[slot].state = "pending" THEN "reply"
    ELSE "unexpected"

\* Faulty variant: the waiter test of line 69 placed before the event test
\* of line 66, so that an event can resolve a pending waiter.
WaiterBeforeEventRoute(msg, cb, slot, futs) ==
    IF IsInvalidCommand(msg) THEN "dropped"
    ELSE IF slot # 0 /\ futs[slot].state = "pending" THEN "reply"
    ELSE IF is_event(msg)
    THEN IF cb = "None" THEN "event_ignored"
         ELSE IF ParsesAsEvent(msg) THEN "event" ELSE "parse_error"
    ELSE "unexpected"

\* Faulty variant: line 69 without `not self.response_future.done()`.
RouteResolvesAgain(msg, cb, slot, futs) ==
    IF IsInvalidCommand(msg) THEN "dropped"
    ELSE IF is_event(msg)
    THEN IF cb = "None" THEN "event_ignored"
         ELSE IF ParsesAsEvent(msg) THEN "event" ELSE "parse_error"
    ELSE IF slot # 0 /\ futs[slot].state \in {"pending", "resolved"} THEN "reply"
    ELSE "unexpected"

\* Lines 62-72: which branch receive() takes for a decoded message.
Route(msg, cb, slot, futs) ==
    IF IsInvalidCommand(msg) THEN "dropped"
    ELSE IF is_event(msg)
    THEN IF cb = "None" THEN "event_ignored"
         ELSE IF ParsesAsEvent(msg) THEN "event" ELSE "parse_error"
    ELSE IF slot # 0 /\ futs[slot].state = "pending" THEN "reply"
    ELSE "unexpected"

\* Lines 64 and 74, and the exceptions of lines 59 and 68: what receive()
\* hands back on each branch.
Returned(route) ==
    CASE route = "dropped" -> "None"
      [] route \in {"decode_error", "parse_error"} -> "raises"
      [] OTHER -> "msg"

\* Lines 59-72 for the bytes of one read.
RouteData(data) ==
    IF ~Decodable(data) THEN "decode_error"
    ELSE Route(Decode(data), event_callback, response_future, fut)

\* Faulty variant: the callback is started but not awaited, so the loop
\* reads on while it runs.
NextLoopStateNoAwait(route) ==
    IF route \in {"decode_error", "parse_error"} THEN "done" ELSE "reading"

\* Lines 44-45, 50-51 and 68: where the loop is after routing one message.
\* A decode or parse failure ends it, an event suspends it in the awaited
\* callback, anything else takes it back to the read.
NextLoopState(route) ==
    CASE route \in {"decode_error", "parse_error"} -> "done"
      [] route = "event" -> "in_callback"
      [] OTHER -> "reading"

\* Faulty variant: receive() without the test of line 55.
PeerClosedNever(data) == FALSE

\* Line 55: `if not data`.
PeerClosed(data) == data = Eof

\* What the peer can make read() return: nothing but end-of-stream once the
\* transport was closed locally.
ReadInputs ==
    IF writer_closed \/ n_received >= MaxMsgs THEN {Eof}
    ELSE Frames \cup {Eof}

\* Lines 44-45, 53-74 and the handlers of lines 46-51: one read and the
\* routing of what it returned, up to the next suspension point.
listen_receive ==
    /\ listen_task = "reading"
    /\ ~must_cancel
    /\ \E data \in ReadInputs :
        IF PeerClosed(data)
        THEN \* line 57 raises ConnectionResetError, line 46 ends the loop
             /\ listen_task' = "done"
             /\ task_end' = "peer_closed"
             /\ UNCHANGED << response_future, fut, logVars >>
        ELSE LET r == RouteData(data) IN
             /\ n_received' = n_received + 1
             /\ last' = [data |-> data, route |-> r]
             /\ response_future' = response_future
             /\ fut' = IF r = "reply"
                       THEN [fut EXCEPT ![response_future] =
                                [state |-> "resolved", value |-> Decode(data)]]
                       ELSE fut
             /\ cb_count' = IF r = "event" THEN cb_count + 1 ELSE cb_count
             /\ cb_last' = IF r = "event"
                           THEN [cb |-> event_callback, msg |-> Decode(data),
                                 at |-> n_received + 1]
                           ELSE cb_last
             /\ listen_task' = NextLoopState(r)
             /\ task_end' = IF r \in {"decode_error", "parse_error"} THEN r
                            ELSE task_end
    /\ UNCHANGED << event_callback, writer_closed, callVars, closeVars,
                    must_cancel, tasks_created >>

\* Line 68: the awaited callback returns; receive() returns msg and the
\* loop goes back to the read.
callback_returns ==
    /\ listen_task = "in_callback"
    /\ ~must_cancel
    /\ listen_task' = "reading"
    /\ UNCHANGED << response_future, fut, event_callback, writer_closed,
                    callVars, closeVars, must_cancel, task_end, tasks_created,
                    logVars >>

\* Line 68: the awaited callback raises; the exception leaves receive() and
\* is caught at line 50, which ends the loop.
callback_raises ==
    /\ listen_task = "in_callback"
    /\ ~must_cancel
    /\ listen_task' = "done"
    /\ task_end' = "callback_error"
    /\ UNCHANGED << response_future, fut, event_callback, writer_closed,
                    callVars, closeVars, must_cancel, tasks_created, logVars >>

\* Lines 48-49: CancelledError is thrown into the pending read (or through
\* the awaited callback) and caught; the coroutine returns.
listen_cancelled ==
    /\ listen_task \in {"reading", "in_callback"}
    /\ must_cancel
    /\ listen_task' = "done"
    /\ task_end' = "cancelled"
    /\ must_cancel' = FALSE
    /\ UNCHANGED << response_future, fut, event_callback, writer_closed,
                    callVars, closeVars, tasks_created, logVars >>

\* ------------------------------------------------------------------ close
\* Faulty variant: close() does not wait for the task (fire and forget).
JoinsNever(task) == TRUE

\* Line 83: `await self.listen_task` resumes once the task is done.
Joined(task) == task = "done"

\* Faulty variant: close() without the handler of lines 84-85.
SwallowsNothing(how) == FALSE

\* Lines 84-85: awaiting a task that ended cancelled raises CancelledError,
\* which close() swallows.
Swallows(how) == how = "cancelled_unstarted"

\* Faulty variant: _listen without the handler of lines 50-51.
ListenCatchesOnlyClosure(how) == how \in {"peer_closed", "cancelled"}

\* Lines 46-51: the exceptions the try block of _listen catches, by what
\* raised them: the zero-byte read, a cancellation delivered while the loop
\* runs, and any other Exception out of receive().
ListenCatches(how) ==
    how \in {"peer_closed", "cancelled", "decode_error", "parse_error",
             "callback_error"}

\* How the task created at line 40 finished: the coroutine returned, the
\* task was cancelled before the coroutine entered its try block, or an
\* exception left the coroutine.
TaskOutcome(how) ==
    CASE how = "none" -> "none"
      [] how = "cancelled_unstarted" -> "cancelled"
      [] ListenCatches(how) -> "returned"
      [] OTHER -> "exception"

\* What `await self.listen_task` raises into close() for a finished task.
JoinRaises(how) ==
    CASE TaskOutcome(how) = "cancelled" ->
             IF Swallows(how) THEN "none" ELSE "CancelledError"
      [] TaskOutcome(how) = "exception" -> "Exception"
      [] OTHER -> "none"

\* Lines 80-81 and 87: close() up to its first suspension point.  With no
\* task it goes straight to writer.close(); awaiting a task that is already
\* done does not suspend either.  Calls are numbered in the order in which
\* they are made.
close_begin(c) ==
    /\ cpc[c] = "idle"
    /\ \A d \in Closers : d < c => cpc[d] # "idle"
    /\ close_saw' = [close_saw EXCEPT ![c] =
                        CASE listen_task = "None" -> "no_task"
                          [] listen_task = "done" -> "finished"
                          [] OTHER -> "alive"]
    /\ IF listen_task = "None"
       THEN /\ writer_closed' = TRUE
            /\ cpc' = [cpc EXCEPT ![c] = "wait_closed"]
            /\ UNCHANGED << must_cancel, close_raised >>
       ELSE IF Joined(listen_task)
       THEN /\ UNCHANGED must_cancel
            /\ IF JoinRaises(task_end) = "none"
               THEN /\ writer_closed' = TRUE
                    /\ cpc' = [cpc EXCEPT ![c] = "wait_closed"]
                    /\ UNCHANGED close_raised
               ELSE /\ cpc' = [cpc EXCEPT ![c] = "done"]
                    /\ close_raised' = [close_raised EXCEPT ![c] = JoinRaises(task_end)]
                    /\ UNCHANGED writer_closed
       ELSE /\ must_cancel' = TRUE
            /\ cpc' = [cpc EXCEPT ![c] = "joining"]
            /\ UNCHANGED << writer_closed, close_raised >>
    /\ UNCHANGED << response_future, fut, event_callback, callVars,
                    listen_task, task_end, tasks_created, logVars >>

\* Lines 83-87: the awaited task is done; close() resumes and closes the
\* writer.
close_joined(c) ==
    /\ cpc[c] = "joining"
    /\ Joined(listen_task)
    /\ IF JoinRaises(task_end) = "none"
       THEN /\ writer_closed' = TRUE
            /\ cpc' = [cpc EXCEPT ![c] = "wait_closed"]
            /\ UNCHANGED close_raised
       ELSE /\ cpc' = [cpc EXCEPT ![c] = "done"]
            /\ close_raised' = [close_raised EXCEPT ![c] = JoinRaises(task_end)]
            /\ UNCHANGED writer_closed
    /\ UNCHANGED << response_future, fut, event_callback, callVars, loopVars,
                    logVars, close_saw >>

\* Lines 88-89: wait_closed() returns and close() returns.
close_return(c) ==
    /\ cpc[c] = "wait_closed"
    /\ cpc' = [cpc EXCEPT ![c] = "done"]
    /\ UNCHANGED << response_future, fut, event_callback, writer_closed,
                    callVars, close_raised, close_saw, loopVars, logVars >>

\* ---------------------------------------------------------- specification
CallStep ==
    \/ \E s \in Calls : send_command_write(s)
    \/ \E s \in Calls : send_command_register(s)
    \/ \E s \in Calls : send_command_return(s)
    \/ \E s \in Calls : send_command_timeout(s)
    \/ \E s \in Calls : send_command_after_timeout(s)
    \/ \E s \in Calls : send_command_return_late(s)

ListenStep ==
    \/ start_listening
    \/ \E cb \in Callbacks : set_event_callback(cb)
    \/ listen_first_turn
    \/ listen_receive
    \/ callback_returns
    \/ callback_raises

CancelStep ==
    \/ \E s \in Calls : send_command_cancel(s)
    \/ \E s \in Calls : send_command_cancelled(s)
    \/ \E s \in Calls : send_command_waiter_cancelled(s)

CloseStep ==
    \/ listen_cancelled
    \/ \E c \in Closers : close_begin(c)
    \/ \E c \in Closers : close_joined(c)
    \/ \E c \in Closers : close_return(c)

\* The whole connection: callers, their cancellation, receive loop and
\* close().
Next == CallStep \/ CancelStep \/ ListenStep \/ CloseStep

Spec == Init /\ [][Next]_vars

\* The connection while nobody calls close() or cancels a caller: callers
\* and the receive loop.
NextRouting == CallStep \/ ListenStep

SpecRouting == Init /\ [][NextRouting]_vars

\* The callers, cancellable, and a receive loop with no event callback
\* registered.
NextCalls ==
    \/ CallStep
    \/ CancelStep
    \/ start_listening
    \/ listen_first_turn
    \/ listen_receive

SpecCalls == Init /\ [][NextCalls]_vars

\* The connection while nobody calls send_command: the receive loop's life
\* cycle under start_listening and close().
NextLifecycle == ListenStep \/ CloseStep

SpecLifecycle == Init /\ [][NextLifecycle]_vars

\* ================================================================= claims
\* A decoded message holds the words "invalid command" in some letter case.
AnyCaseInvalidCommand(msg) ==
    \E i \in 1..(Len(msg) - 1) :
        LowerWord(msg[i]) = "invalid" /\ LowerWord(msg[i + 1]) = "command"

\* The step is one read of the receive loop that returned bytes.
JustRead == n_received' = n_received + 1

\* C1: a send_command that is still awaiting its unresolved waiter still
\* owns the waiter slot: no other call has replaced or cleared it.
C1_FirstWaiterKeepsSlot ==
    \A s \in Calls :
        (pc[s] = "waiting" /\ fut[s].state = "pending") => response_future = s

\* C2: a send_command whose bounded wait elapsed still ends by returning a
\* reply: the timeout does not make it raise.
C2_TimedOutCallReturnsReply ==
    \A s \in Calls :
        (pc[s] = "done" /\ fut[s].state = "cancelled") => result[s].kind = "reply"

\* C3: the callback is invoked exactly when an event is routed, with that
\* event and its arrival number; a pending waiter is resolved with exactly
\* the text of the first message that is neither an event nor a rejection
\* notice, and keeps it; an event never changes a waiter and a reply never
\* reaches the callback.
C3_EventReplyRouting ==
    /\ [](\A s \in Calls :
            fut[s].state = "resolved" =>
                ~is_event(fut[s].value) /\ ~AnyCaseInvalidCommand(fut[s].value))
    /\ [](cb_count > 0 =>
            /\ is_event(cb_last.msg)
            /\ ~AnyCaseInvalidCommand(cb_last.msg)
            /\ cb_last.cb \in Callbacks)
    /\ [][ (JustRead /\ Decodable(last'.data)) =>
             LET msg == Decode(last'.data) IN
             /\ (is_event(msg) \/ AnyCaseInvalidCommand(msg)) => fut' = fut
             /\ ( /\ is_event(msg)
                  /\ ~AnyCaseInvalidCommand(msg)
                  /\ ParsesAsEvent(msg)
                  /\ event_callback # "None" ) =>
                    /\ cb_count' = cb_count + 1
                    /\ cb_last' = [cb |-> event_callback, msg |-> msg,
                                   at |-> n_received']
             /\ ~is_event(msg) => (cb_count' = cb_count /\ cb_last' = cb_last)
             /\ ( /\ ~is_event(msg)
                  /\ ~AnyCaseInvalidCommand(msg)
                  /\ response_future # 0
                  /\ fut[response_future].state = "pending" ) =>
                    fut' = [fut EXCEPT ![response_future] =
                               [state |-> "resolved", value |-> msg]]
         ]_vars
    /\ [][ \A s \in Calls : fut[s].state = "resolved" => fut'[s] = fut[s] ]_vars
    /\ [][ cb_count' # cb_count => (JustRead /\ cb_last'.at > cb_last.at) ]_vars

\* C3 witness: three messages were routed, two of them events handed to the
\* callback (the second one as message 3), and the first call's waiter holds
\* the text of the reply.
C3_Witness ==
    /\ n_received = 3
    /\ cb_count = 2
    /\ cb_last.at = 3
    /\ fut[1].state = "resolved"
    /\ fut[1].value = <<"ok">>

\* C4: a read whose message holds "invalid command" in any letter case
\* makes receive() return None, leaves the waiter slot and every waiter as
\* they were, invokes no callback, and leaves the loop reading.
C4_InvalidCommandDropped ==
    [][ ( /\ JustRead
          /\ Decodable(last'.data)
          /\ AnyCaseInvalidCommand(Decode(last'.data)) ) =>
            /\ last'.route = "dropped"
            /\ Returned(last'.route) = "None"
            /\ UNCHANGED << response_future, fut, cb_count, cb_last >>
            /\ listen_task' = "reading"
      ]_vars

\* C4 witness: an event-shaped rejection notice in mixed case was dropped
\* while a waiter was pending and a callback was registered.
C4_Witness ==
    /\ last.data = <<1, 6, 7>>
    /\ last.route = "dropped"
    /\ event_callback # "None"
    /\ response_future # 0
    /\ fut[response_future].state = "pending"

\* C5: a close() that found the loop task alive requests its cancellation,
\* resumes only once the task is done, closes the stream only then, and has
\* the task done and the stream closed when it returns; writer.close() is
\* never called while a task is alive.
C5_CloseDrainsCleanly ==
    /\ [](\A c \in Closers :
            (cpc[c] = "joining" /\ TaskAlive) => must_cancel)
    /\ [](\A c \in Closers :
            (close_saw[c] = "alive" /\ cpc[c] \in {"wait_closed", "done"}) =>
                (listen_task = "done" /\ writer_closed))
    /\ [][ \A c \in Closers :
             (cpc[c] = "joining" /\ cpc'[c] # "joining") =>
                 (listen_task = "done" /\ writer_closed' /\ cpc'[c] = "wait_closed")
         ]_vars
    /\ [][ (~writer_closed /\ writer_closed') => ~TaskAlive ]_vars

\* C5 witness: close() was called while the loop was blocked in a read or in
\* the callback, the loop ended by that cancellation, and close() returned.
C5_Witness ==
    /\ close_saw[1] = "alive"
    /\ cpc[1] = "done"
    /\ task_end = "cancelled"
    /\ writer_closed

\* The connection has closed: the receive loop has ended or the stream was
\* closed locally.
ConnectionClosed == listen_task = "done" \/ writer_closed

\* C6: once the connection has closed, a send_command still waiting on its
\* unresolved waiter leaves that wait only by raising the connection-closed
\* error.
C6_ClosedWhileWaitingRaisesClosed ==
    [][ \A s \in Calls :
          ( /\ ConnectionClosed
            /\ pc[s] = "waiting"
            /\ fut[s].state = "pending"
            /\ pc'[s] # "waiting" ) =>
              (pc'[s] = "done" /\ result'[s].kind = "ConnectionResetError")
      ]_vars

\* C7: start_listening creates at most one task over the life of the
\* connection, and a call made while a task exists changes nothing.
C7_StartListeningOnce ==
    /\ [](tasks_created <= 1)
    /\ [](listen_task = "None" <=> tasks_created = 0)
    /\ [][ (listen_task # "None" /\ start_listening) => UNCHANGED vars ]_vars
    /\ [][ listen_task # "None" => tasks_created' = tasks_created ]_vars

\* C7 witness: the one task exists and has already routed messages, a state
\* in which start_listening can be called again.
C7_Witness ==
    /\ tasks_created = 1
    /\ listen_task = "reading"
    /\ n_received = 2

\* What a close() may change on the connection.
connState ==
    << listen_task, task_end, must_cancel, tasks_created, writer_closed,
       response_future, fut, event_callback >>

\* C8: no close() raises; a close() that found no task closes the stream;
\* every close() that has returned left the stream closed; and a close()
\* made when the loop has already ended and the stream is already closed
\* changes nothing on the connection.
C8_CloseSafeAndIdempotent ==
    /\ [](\A c \in Closers : close_raised[c] = "none")
    /\ [](\A c \in Closers :
            close_saw[c] = "no_task" =>
                (cpc[c] \in {"wait_closed", "done"} /\ writer_closed))
    /\ [](\A c \in Closers : cpc[c] = "done" => writer_closed)
    /\ [][ \A c \in Closers :
             (cpc'[c] # cpc[c] /\ close_saw'[c] = "finished" /\ writer_closed) =>
                 UNCHANGED connState
         ]_vars

\* C8 witness: a first close() cancelled the task before its first turn, so
\* the task ended cancelled; a second close() found it finished, awaited it,
\* and returned as well.
C8_Witness ==
    /\ close_saw[1] = "alive"
    /\ close_saw[2] = "finished"
    /\ task_end = "cancelled_unstarted"
    /\ cpc[1] = "done"
    /\ cpc[2] = "done"

\* C9: no message the loop receives ends the loop: after a frame that does
\* not decode, an event that does not parse or an unexpected reply, the task
\* is still running.
C9_NoMessageEndsLoop ==
    [][ JustRead => listen_task' # "done" ]_vars

\* C10: the loop never ends because the event callback raised.
C10_CallbackFailureKeepsLoop ==
    task_end # "callback_error"

\* C11: whenever a send_command leaves its wait, by returning a reply or by
\* raising (after the timeout, by cancellation, or by any exception of the
\* await), the waiter slot is empty.
C11_SlotClearedOnExit ==
    [][ \A s \in Calls :
          ( /\ pc[s] \in {"waiting", "timedout", "waiting_again", "cancelling"}
            /\ pc'[s] = "done" ) =>
              response_future' = 0
      ]_vars

\* C11 witness: the first call was cancelled while the second call's waiter
\* was in the slot, and left the slot empty.
C11_Witness ==
    /\ pc[1] = "done"
    /\ result[1].kind = "CancelledError"
    /\ pc[2] = "waiting"
    /\ fut[2].state = "pending"
    /\ response_future = 0

\* C12: a read of zero bytes is never decoded or routed: receive() raises
\* the connection-closed error, which ends the loop, and the waiter slot,
\* every waiter, the callback record and the record of routed messages are
\* left as they were.
C12_ZeroReadRoutesNothing ==
    /\ [][ JustRead => last'.data # Eof ]_vars
    /\ [][ (task_end # "peer_closed" /\ task_end' = "peer_closed") =>
             /\ listen_task = "reading"
             /\ listen_task' = "done"
             /\ UNCHANGED << response_future, fut, cb_count, cb_last,
                             n_received, last >>
         ]_vars

\* C12 witness: the peer closed the stream while a waiter was pending and a
\* callback was registered; the waiter is still pending.
C12_Witness ==
    /\ task_end = "peer_closed"
    /\ event_callback # "None"
    /\ response_future # 0
    /\ fut[response_future].state = "pending"

\* C13: a callback is invoked only by the routing of an event, once per
\* event, and it is the callback registered when that event is routed;
\* replacing the callback invokes nothing, so events routed before the
\* replacement, delivered or dropped for want of a callback, never reach the
\* new callback.
C13_NoRetroactiveDelivery ==
    /\ [][ cb_count' # cb_count =>
             /\ JustRead
             /\ last'.route = "event"
             /\ cb_count' = cb_count + 1
             /\ cb_last' = [cb |-> event_callback, msg |-> Decode(last'.data),
                            at |-> n_received']
         ]_vars
    /\ [][ (JustRead /\ last'.route = "event") => cb_count' = cb_count + 1 ]_vars
    /\ [][ (JustRead /\ last'.route = "event_ignored") =>
             UNCHANGED << cb_count, cb_last >> ]_vars
    /\ [][ event_callback' # event_callback =>
             UNCHANGED << cb_count, cb_last, n_received, last >> ]_vars

\* C13 witness: the second message was an event delivered to cb1, the
\* callback was then replaced by cb2, and cb1's invocation is still the only
\* one.
C13_Witness ==
    /\ n_received = 2
    /\ last.route = "event"
    /\ cb_count = 1
    /\ cb_last.cb = "cb1"
    /\ cb_last.at = 2
    /\ listen_task = "reading"
    /\ event_callback = "cb2"

\* C14: a reply routed after a command was written finds that command's
\* waiter registered: while one call has written its command and no other
\* call is in progress, no message is classified as unexpected.
C14_WaiterRegisteredBeforeReply ==
    [][ (JustRead /\ last'.route = "unexpected") =>
          ~ \E s \in Calls :
               /\ pc[s] = "draining"
               /\ \A t \in Calls \ {s} : pc[t] = "idle"
      ]_vars

\* The Future whose result a call that ends can return: its own (line 30),
\* or after a timeout the one read from the slot at line 34.
ReturnsFrom(s) ==
    IF pc[s] = "timedout" THEN response_future
    ELSE IF awaiting[s] # 0 THEN awaiting[s]
    ELSE s

\* C15: a reply read while no pending waiter is registered is discarded:
\* routing it changes nothing but the record of the read; a waiter starts
\* pending and empty whatever was read before; a waiter is resolved only in
\* the step that routes a reply to it, with that reply's text; and a call
\* returns only the value of such a waiter.
C15_UnexpectedReplyDiscarded ==
    /\ [][ (JustRead /\ last'.route = "unexpected") =>
             /\ listen_task' = "reading"
             /\ UNCHANGED << response_future, fut, event_callback,
                             writer_closed, callVars, cb_count, cb_last,
                             must_cancel, task_end, tasks_created >>
         ]_vars
    /\ [][ \A s \in Calls :
             (pc[s] = "draining" /\ pc'[s] = "waiting") =>
                 /\ response_future' = s
                 /\ fut'[s] = [state |-> "pending", value |-> << >>]
         ]_vars
    /\ [][ \A s \in Calls :
             (fut[s].state # "resolved" /\ fut'[s].state = "resolved") =>
                 /\ fut[s].state = "pending"
                 /\ response_future = s
                 /\ JustRead
                 /\ last'.route = "reply"
                 /\ fut'[s].value = Decode(last'.data)
         ]_vars
    /\ [][ \A s \in Calls :
             (pc[s] # "done" /\ pc'[s] = "done" /\ result'[s].kind = "reply") =>
                 /\ ReturnsFrom(s) \in Calls
                 /\ fut[ReturnsFrom(s)].state = "resolved"
                 /\ result'[s].value = fut[ReturnsFrom(s)].value
         ]_vars

\* C15 witness: a reply was read with no waiter registered, the first call
\* then registered its waiter, and the waiter is pending.
C15_Witness ==
    /\ n_received = 1
    /\ last.route = "unexpected"
    /\ pc[1] = "waiting"
    /\ pc[2] = "idle"
    /\ response_future = 1
    /\ fut[1] = [state |-> "pending", value |-> << >>]

\* C16: a waiter is resolved at most once: a resolved waiter keeps its
\* state and value, a reply read while the slot holds a resolved waiter is
\* classified as unexpected, and the call waiting on it returns the first
\* reply.
C16_WaiterResolvedOnce ==
    /\ [][ \A s \in Calls :
             fut[s].state = "resolved" => fut'[s] = fut[s] ]_vars
    /\ [][ ( /\ JustRead
             /\ response_future # 0
             /\ fut[response_future].state = "resolved"
             /\ Decodable(last'.data)
             /\ ~ IsInvalidCommand(Decode(last'.data))
             /\ ~ is_event(Decode(last'.data)) ) =>
                 last'.route = "unexpected" /\ fut' = fut ]_vars
    /\ [][ \A s \in Calls :
             (pc[s] = "waiting" /\ fut[s].state = "resolved" /\ pc'[s] = "done") =>
                 result'[s] = [kind |-> "reply", value |-> fut[s].value] ]_vars

\* C16 witness: the first read resolved the waiter with "ok", the second
\* read was another reply, and the call has not resumed yet.
C16_Witness ==
    /\ n_received = 2
    /\ pc[1] = "waiting"
    /\ response_future = 1
    /\ fut[1] = [state |-> "resolved", value |-> <<"ok">>]
    /\ last = [data |-> <<5>>, route |-> "unexpected"]

\* C17: one loop processes the messages one at a time in arrival order: a
\* message is read only while the loop is at its read, each read routes
\* exactly the next message, a read routed as an event leaves the loop
\* suspended in the callback until the callback has finished, and every
\* callback invocation and waiter resolution belongs to the message read
\* in that step, so their order is the arrival order.
C17_StrictArrivalOrder ==
    /\ [](tasks_created <= 1)
    /\ [](listen_task = "in_callback" =>
            last.route = "event" /\ cb_last.at = n_received)
    /\ [][ n_received' # n_received =>
             JustRead /\ listen_task = "reading" ]_vars
    /\ [][ (JustRead /\ last'.route = "event") =>
             listen_task' = "in_callback" ]_vars
    /\ [][ cb_count' # cb_count =>
             JustRead /\ cb_last'.at = n_received' /\ cb_last'.at > cb_last.at
         ]_vars
    /\ [][ (\E s \in Calls : fut[s].state # "resolved"
                               /\ fut'[s].state = "resolved") =>
             JustRead /\ last'.route = "reply" ]_vars

\* C17 witness: the first message resolved the waiter, the second is an
\* event whose callback is still running, and no third message was read.
C17_Witness ==
    /\ listen_task = "in_callback"
    /\ n_received = 2
    /\ cb_count = 1
    /\ cb_last.at = 2
    /\ pc[1] = "waiting"
    /\ fut[1].state = "resolved"

RECURSIVE FramesOf(_)
\* The frames of the first k calls, one after the other.
FramesOf(k) == IF k = 0 THEN << >> ELSE FramesOf(k - 1) \o Frame(Cmd(k))

\* The number of calls that have written their command.
Written == Cardinality({ s \in Calls : pc[s] # "idle" })

C19_LoopTaskCompletesNormally ==
    listen_task = "done" => TaskOutcome(task_end) = "returned"

\* C19, amended: a receive-loop task that has ended has completed normally,
\* or, when close() cancelled it before its first turn, has ended cancelled;
\* it never ends with another exception, and no close() raises.
C19_LoopFailureNotPropagated ==
    /\ listen_task = "done" =>
          /\ TaskOutcome(task_end) \in {"returned", "cancelled"}
          /\ TaskOutcome(task_end) = "cancelled" <=>
                task_end = "cancelled_unstarted"
    /\ task_end = "cancelled_unstarted" =>
          \E c \in Closers : close_saw[c] = "alive"
    /\ \A c \in Closers : close_raised[c] = "none"

\* C19 witness: close() cancelled the task before its first turn, the task
\* ended cancelled, and close() has returned without raising.
C19_Witness ==
    /\ listen_task = "done"
    /\ task_end = "cancelled_unstarted"
    /\ cpc[1] = "done"
    /\ close_saw[1] = "alive"
    /\ close_raised[1] = "none"

\* A step in which the receive loop reads from the stream (line 54).
LoopReads ==
    \/ JustRead
    \/ task_end # "peer_closed" /\ task_end' = "peer_closed"

\* The task handle is set at most once, never cleared, and a loop that has
\* ended is never started again.
TaskHandleSetOnce ==
    /\ [](tasks_created <= 1)
    /\ [][ tasks_created' # tasks_created =>
             /\ listen_task = "None"
             /\ listen_task' = "created"
             /\ tasks_created' = tasks_created + 1 ]_vars
    /\ [][ listen_task # "None" => listen_task' # "None" ]_vars
    /\ [][ listen_task = "done" => listen_task' = "done" ]_vars
    /\ [][ (listen_task = "done" /\ start_listening) => UNCHANGED vars ]_vars

\* C20: the task handle is set at most once and a loop that has ended is
\* never restarted, and once a close() has returned the loop reads no more.
C20_NoReadAfterClose ==
    /\ TaskHandleSetOnce
    /\ [][ (\E c \in Closers : cpc[c] = "done") => ~LoopReads ]_vars

\* C20, amended: the task handle is set at most once and a loop that has
\* ended is never restarted, and once a close() that found a task has
\* returned the loop reads no more.
C20_NoReadAfterCloseOfStartedLoop ==
    /\ TaskHandleSetOnce
    /\ [][ (\E c \in Closers : cpc[c] = "done" /\ close_saw[c] # "no_task")
              => ~LoopReads ]_vars

\* C20 witness: the loop read a message, a close() that found the running
\* task has returned, and the one task created is done.
C20_Witness ==
    /\ cpc[1] = "done"
    /\ close_saw[1] = "alive"
    /\ task_end = "cancelled"
    /\ listen_task = "done"
    /\ tasks_created = 1
    /\ n_received = 1

====
